---- MODULE Spec2Model ----
(***************************************************************************)
(* A model of the MCV client (src/src/app.ts) and of the Flask server that *)
(* the build pipeline generates (src/build/pipeline/common.js).            *)
(*                                                                         *)
(* Two bundles are built from app.ts, one per value of __MCV_BACKEND__:    *)
(* the "web" bundle answers backend calls with OpenCV.js, the "python"     *)
(* bundle posts them to /api/mcv of the generated server.  A behaviour is  *)
(* the life of one page, which runs one of the two bundles.                *)
(***************************************************************************)
EXTENDS Integers, Sequences, FiniteSets, TLC

(***************************************************************************)
(* Bounds of the model.                                                    *)
(***************************************************************************)
NCallers == 2       \* call slots that may be in flight at the same time
MaxPoints == 7      \* most correspondences carried by a solvePose request
MaxSamples == 2     \* most samples in one segment of a solveTickBoundary request
MaxEntries == 2     \* most entries of one collection of the library
MaxArgs == 3        \* most arguments of a build command line

VARIABLES
    backend,     \* app.ts:90, __MCV_BACKEND__: the bundle this page runs
    cvEnv,       \* what globalThis.cv / the opencv.js script gives right now
    cvPromise,   \* app.ts:95, the module-level cache of the runtime promise
    args,        \* the args object carried by the requests of this behaviour
    calls,       \* per call slot: the callMcvApi invocation in that slot
    dispatched,  \* the operations that got past the operation check
    scriptElements,  \* the script elements of the document that request opencv.js
    pagePc,            \* "start" until bootstrap (app.ts:825) has run
    mediaApiAvailable, \* app.ts:250-252, whether __MCV_MEDIA_API_URL__ is not blank
    activeMediaTab,    \* app.ts:96
    mediaLoadState,    \* app.ts:97
    mediaSearchQuery,  \* app.ts:98
    selectedMedia,     \* app.ts:99
    mediaLibrary,      \* app.ts:100-103
    mediaError,        \* the text of the #media-error node (app.ts:284-290)
    loadPc,            \* where loadMediaLibrary (app.ts:796) stands
    loadBody,          \* the body of the Media API answer being read
    loadFault,         \* what sent loadMediaLibrary to its catch (app.ts:819), if anything
    lastEvent,         \* the handler that ran last
    buildIn,           \* what a build run reads: command line, config.json, sources
    buildRun,          \* where main (build/build.js:45) stands and its locals
    disk,              \* the files the build has written, in order
    console            \* the lines the build has printed

apiVars == <<backend, cvEnv, cvPromise, args, calls, dispatched, scriptElements>>

uiVars == <<pagePc, mediaApiAvailable, activeMediaTab, mediaLoadState, mediaSearchQuery,
            selectedMedia, mediaLibrary, mediaError, loadPc, loadBody, loadFault,
            lastEvent>>

buildVars == <<buildIn, buildRun, disk, console>>

vars == <<apiVars, uiVars, buildVars>>

Callers == 1..NCallers

(***************************************************************************)
(* Requests.  app.ts:1 declares the operations of the API; the global      *)
(* window.MCV_API.mcv.call is reachable from plain JavaScript, so callers  *)
(* may also ask for operations the type does not list.                     *)
(***************************************************************************)
McvOperation_WithSolvers == {"cv.opencvTest", "solvePose", "solveTickBoundary"}

McvOperation == {"cv.opencvTest"}

RequestedOps == {"cv.opencvTest", "solvePose", "solveTickBoundary"}

EmptyArgs == [points |-> 0, before |-> 0, after |-> 0, parallel |-> FALSE]

\* args of a solvePose request: a correspondence set of n entries
PoseArgs == {[EmptyArgs EXCEPT !.points = n] : n \in 0..MaxPoints}

\* args of a solveTickBoundary request: the two segments' sample counts and
\* whether the two fitted lines are parallel
TickArgs == {[points |-> 0, before |-> b, after |-> a, parallel |-> p] :
                b \in 0..MaxSamples, a \in 0..MaxSamples, p \in BOOLEAN}

ArgsSet == PoseArgs \cup TickArgs

(***************************************************************************)
(* The response envelope, app.ts:8-22.  fields is the set of keys the      *)
(* object carries.                                                         *)
(***************************************************************************)
NoError == [code |-> "", message |-> <<"", "">>, details |-> FALSE]

NoResponse == [ok |-> FALSE, fields |-> {}, data |-> "", error |-> NoError]

McvSuccess(data) ==
    [ok |-> TRUE, fields |-> {"ok", "data"}, data |-> data, error |-> NoError]

McvFailure_KeepData(code, message, details) ==
    [ok |-> FALSE, fields |-> {"ok", "data", "error"}, data |-> "partial",
     error |-> [code |-> code, message |-> message, details |-> details]]

McvFailure(code, message, details) ==
    [ok |-> FALSE, fields |-> {"ok", "error"}, data |-> "",
     error |-> [code |-> code, message |-> message, details |-> details]]

\* The outcome of evaluating a block: a value, or an exception thrown.
Returned(v) == [threw |-> FALSE, value |-> v]
Thrown == [threw |-> TRUE, value |-> NoResponse]

(***************************************************************************)
(* The web backend, app.ts:148-214.                                        *)
(***************************************************************************)
NullPromise == [st |-> "null", cv |-> "missing"]

\* app.ts:149-166: the async body starts at the first call.  With
\* globalThis.cv present the candidate is read at once; otherwise the body
\* awaits loadScriptOnce and reads globalThis.cv when the script has loaded.
StartRuntimePromise(env) ==
    IF env = "missing" THEN [st |-> "loading", cv |-> "missing"]
    ELSE [st |-> "pending", cv |-> env]

\* app.ts:153-165: how the pending promise settles.
SettleRuntimePromise(p, env) ==
    IF p.st = "pending" THEN [st |-> "resolved", cv |-> p.cv]
    ELSE IF env = "missing" THEN [st |-> "rejected", cv |-> "missing"]
    ELSE [st |-> "resolved", cv |-> env]

\* common.js:76-79: the element the web build writes for __BACKEND_SCRIPTS__,
\* <script src="opencvUrl"></script>; it carries no data-mcv-src attribute
StaticScript == [by |-> "html", mcvSrc |-> FALSE]

\* app.ts:128-144: the element loadScriptOnce creates, with
\* dataset.mcvSrc = scriptUrl
DynamicScript == [by |-> "loadScriptOnce", mcvSrc |-> TRUE]

\* common.js:76-83: the opencv.js elements of the page as served.  The python
\* build writes none; the web build writes one where the template has the
\* __BACKEND_SCRIPTS__ placeholder.
PageScripts(mode) ==
    IF mode = "web" THEN {<<>>, <<StaticScript>>} ELSE {<<>>}

\* app.ts:112-146: document.querySelector('script[data-mcv-src="url"]') finds
\* only elements with the data attribute; without one a new element is
\* appended to document.head
loadScriptOnce(elements) ==
    IF \E i \in 1..Len(elements) : elements[i].mcvSrc
    THEN elements
    ELSE Append(elements, DynamicScript)

\* app.ts:149-154: the call that finds cvPromise unset starts the async body,
\* which calls loadScriptOnce when globalThis.cv is missing
StartsLoad(p, env) == p.st = "null" /\ env = "missing"

getWebMcvRuntime_NoCache(p, env) == StartRuntimePromise(env)

\* app.ts:148-169
getWebMcvRuntime(p, env) ==
    IF p.st = "null" THEN StartRuntimePromise(env) ELSE p

WebSupports_Any(op) == TRUE

\* app.ts:173
WebSupports(op) == op \in McvOperation

\* app.ts:174-180
WebUnknownOp(op) ==
    McvFailure("UNKNOWN_OP", <<"Unsupported operation in web backend: ", op>>, FALSE)

\* app.ts:184-203: the try block, given the settled runtime promise.  A
\* rejected promise throws at the await; a runtime that lacks a binding
\* throws at the first cv call.
WebTryBody(p) ==
    IF p.st = "resolved" /\ p.cv = "good"
    THEN Returned(McvSuccess("McvOpencvTestResult"))
    ELSE Thrown

WebCatch_Rethrow(outcome) == outcome

\* app.ts:204-213
WebCatch(outcome) ==
    IF outcome.threw
    THEN Returned(McvFailure("WEB_BACKEND_ERROR", <<"OpenCV.js call failed", "">>, TRUE))
    ELSE outcome

(***************************************************************************)
(* The generated server, common.js:229-249.                                *)
(***************************************************************************)
JsonBody(status, v) == [status |-> status, json |-> TRUE, value |-> v]
OtherBody(status) == [status |-> status, json |-> FALSE, value |-> NoResponse]
NoHttp == OtherBody(0)

ServerSupports_Any(op) == TRUE

\* common.js:235
ServerSupports(op) == op = "cv.opencvTest"

\* common.js:238-249
ServerUnknownOp(op) ==
    JsonBody(400, McvFailure("UNKNOWN_OP", <<"Unsupported operation: ", op>>, FALSE))

\* common.js:229-249, given whether the operation handler raises (Flask
\* answers an unhandled exception with status 500 and an HTML body)
api_mcv(op, raises) ==
    IF ServerSupports(op)
    THEN IF raises THEN OtherBody(500)
         ELSE JsonBody(200, McvSuccess("McvOpencvTestResult"))
    ELSE ServerUnknownOp(op)

(***************************************************************************)
(* The line-detection endpoint of the generated server, common.js:153-287. *)
(* A request is described by what it carries as args.image_data_url, the   *)
(* OpenCV build of the server by what its line segment detector does.      *)
(***************************************************************************)
ImageInputs ==
    {"args_not_object",  \* args is a truthy value without .get, such as a list
     "missing",          \* no image_data_url
     "not_string",       \* image_data_url is a number
     "blank",            \* image_data_url is whitespace
     "no_comma",         \* a string without "," 
     "not_base64",       \* a data URL whose header lacks ";base64"
     "bad_base64",       \* a payload that is not base64
     "not_image",        \* base64 of bytes cv2.imdecode cannot read
     "png"}              \* a well-formed PNG data URL

CvBuilds == {"full", "no_lsd", "detect_raises"}

\* common.js:153-167
decode_image_data_url_to_bgr(image) ==
    CASE image = "no_comma" -> [raised |-> TRUE, message |-> "Invalid image_data_url"]
      [] image = "not_base64" ->
            [raised |-> TRUE, message |-> "image_data_url must be base64 encoded"]
      [] image = "bad_base64" ->
            [raised |-> TRUE, message |-> "Invalid image_data_url base64 payload"]
      [] image = "not_image" -> [raised |-> TRUE, message |-> "Could not decode image data"]
      [] OTHER -> [raised |-> FALSE, message |-> ""]

\* common.js:178-206
run_pipeline(image, build) ==
    LET decoded == decode_image_data_url_to_bgr(image)
    IN IF decoded.raised THEN decoded
       ELSE IF build = "no_lsd"
       THEN [raised |-> TRUE,
             message |-> "LineSegmentDetector is unavailable in this OpenCV build"]
       ELSE IF build = "detect_raises"
       THEN [raised |-> TRUE, message |-> "cv2.error"]
       ELSE [raised |-> FALSE, message |-> ""]

\* common.js:252-287
api_mcv_pipeline(image, build) ==
    IF image = "args_not_object" THEN OtherBody(500)
    ELSE IF image \in {"missing", "not_string", "blank"}
    THEN JsonBody(400, McvFailure("INVALID_ARGS", <<"image_data_url is required", "">>, FALSE))
    ELSE LET result == run_pipeline(image, build)
         IN IF result.raised
            THEN JsonBody(400, McvFailure("PIPELINE_ERROR", <<result.message, "">>, FALSE))
            ELSE JsonBody(200, McvSuccess("PipelineResult"))

(***************************************************************************)
(* The python backend of the client, app.ts:216-243.                       *)
(***************************************************************************)
ResponseOk(r) == r.status >= 200 /\ r.status <= 299

PyHttpError_PassBody(r) == IF r.json THEN r.value ELSE
    McvFailure("HTTP_ERROR", <<"HTTP ", ToString(r.status)>>, FALSE)

\* app.ts:223-231
PyHttpError(r) == McvFailure("HTTP_ERROR", <<"HTTP ", ToString(r.status)>>, FALSE)

\* app.ts:233: response.json() rejects on a body that is not JSON
PyReadBody(r) == IF r.json THEN Returned(r.value) ELSE Thrown

PyCatch_Rethrow(outcome) == outcome

\* app.ts:234-243
PyCatch(outcome) ==
    IF outcome.threw
    THEN Returned(McvFailure("NETWORK_ERROR", <<"Could not reach backend API", "">>, TRUE))
    ELSE outcome

(***************************************************************************)
(* The media selector of the page, app.ts:96-103 and 316-837.              *)
(*                                                                         *)
(* Texts (ids, names, YouTube ids, path segments, query values) are        *)
(* sequences of one-character strings.  A URL is held in parsed form: its  *)
(* host, the non-empty segments of its path, its v and t query values and  *)
(* whether it carries a fragment; pad tells whether the string it was read *)
(* from has whitespace around it.                                          *)
(***************************************************************************)
EmptyText == <<>>

RECURSIVE TrimStart(_)
TrimStart(s) == IF s # <<>> /\ Head(s) = " " THEN TrimStart(Tail(s)) ELSE s

RECURSIVE TrimEnd(_)
TrimEnd(s) ==
    IF s # <<>> /\ s[Len(s)] = " " THEN TrimEnd(SubSeq(s, 1, Len(s) - 1)) ELSE s

\* String.prototype.trim
Trim(s) == TrimEnd(TrimStart(s))

\* the raw value of the t query parameter: absent, digits, a form of
\* <h>h<m>m<s>s (a part absent when its has-flag is false; the s suffix is
\* optional), or anything else
NoT == [kind |-> "none", n |-> 0, hasH |-> FALSE, h |-> 0, hasM |-> FALSE, m |-> 0,
        hasS |-> FALSE, s |-> 0]
DigitsT(n) == [NoT EXCEPT !.kind = "digits", !.n = n]
HmsT(hasH, h, hasM, m, hasS, s) ==
    [kind |-> "hms", n |-> 0, hasH |-> hasH, h |-> h, hasM |-> hasM, m |-> m,
     hasS |-> hasS, s |-> s]
OtherT == [NoT EXCEPT !.kind = "other"]

\* a string that new URL() rejects
NotUrl == [blank |-> FALSE, pad |-> FALSE, isUrl |-> FALSE, host |-> "", path |-> <<>>,
           v |-> EmptyText, t |-> NoT, frag |-> FALSE]
\* a string of whitespace only
BlankInput == [NotUrl EXCEPT !.blank = TRUE]
Url(host, path, v, t, frag) ==
    [blank |-> FALSE, pad |-> FALSE, isUrl |-> TRUE, host |-> host, path |-> path,
     v |-> v, t |-> t, frag |-> frag]

\* app.ts:376-382; NotUrl stands for null.  new URL() drops the whitespace
\* around its argument
parseUrlOrNull(value) == IF value.isUrl THEN [value EXCEPT !.pad = FALSE] ELSE NotUrl

\* String.prototype.endsWith("youtube.com") on the hosts of the model
EndsWithYoutubeCom(host) ==
    host \in {"youtube.com", "www.youtube.com", "m.youtube.com", "notyoutube.com"}

\* app.ts:384-391
isYoutubeUrl(url) ==
    \/ url.host = "youtu.be"
    \/ url.host = "www.youtu.be"
    \/ EndsWithYoutubeCom(url.host)

IdChars ==
    {"A", "B", "C", "D", "E", "F", "G", "H", "I", "J", "K", "L", "M", "N",
     "O", "P", "Q", "R", "S", "T", "U", "V", "W", "X", "Y", "Z", "a", "b",
     "c", "d", "e", "f", "g", "h", "i", "j", "k", "l", "m", "n", "o", "p",
     "q", "r", "s", "t", "u", "v", "w", "x", "y", "z", "0", "1", "2", "3",
     "4", "5", "6", "7", "8", "9", "_", "-"}

\* app.ts:412, /^[A-Za-z0-9_-]{6,}$/
IsYoutubeIdText(s) == Len(s) >= 6 /\ \A i \in 1..Len(s) : s[i] \in IdChars

\* app.ts:393-413; EmptyText stands for null
extractYoutubeId(url) ==
    LET pathParts == url.path
        candidate ==
            IF url.host = "youtu.be" \/ url.host = "www.youtu.be"
            THEN (IF Len(pathParts) >= 1 THEN pathParts[1] ELSE EmptyText)
            ELSE IF EndsWithYoutubeCom(url.host)
            THEN (IF pathParts = <<<<"w", "a", "t", "c", "h">>>> THEN url.v
                  ELSE IF Len(pathParts) >= 2 /\
                          pathParts[1] \in {<<"s", "h", "o", "r", "t", "s">>, <<"e", "m", "b", "e", "d">>,
                                            <<"l", "i", "v", "e">>, <<"v">>}
                  THEN pathParts[2]
                  ELSE EmptyText)
            ELSE EmptyText
        trimmed == Trim(candidate)
    IN IF trimmed = EmptyText THEN EmptyText
       ELSE IF IsYoutubeIdText(trimmed) THEN trimmed ELSE EmptyText

\* app.ts:415-431; -1 stands for null
parseTimestampSeconds(raw) ==
    CASE raw.kind = "none" -> -1
      [] raw.kind = "digits" -> raw.n
      [] raw.kind = "hms" ->
            LET hours == IF raw.hasH THEN raw.h ELSE 0
                minutes == IF raw.hasM THEN raw.m ELSE 0
                seconds == IF raw.hasS THEN raw.s ELSE 0
                total == hours * 3600 + minutes * 60 + seconds
            IN IF total > 0 THEN total ELSE -1
      [] OTHER -> -1

NoLabel == [kind |-> "none", hrs |-> 0, mins |-> 0, secs |-> 0, raw |-> NoT]

\* app.ts:433-441: the label h:mm:ss, or m:ss under one hour
formatTimestamp(seconds) ==
    [kind |-> IF seconds \div 3600 > 0 THEN "h:mm:ss" ELSE "m:ss",
     hrs |-> seconds \div 3600, mins |-> (seconds % 3600) \div 60, secs |-> seconds % 60,
     raw |-> NoT]

\* app.ts:443-453; NoLabel stands for undefined
extractYoutubeTimestampLabel(url) ==
    LET raw == url.t
    IN IF raw.kind = "none" THEN NoLabel
       ELSE LET seconds == parseTimestampSeconds(raw)
            IN IF seconds = -1 THEN [NoLabel EXCEPT !.kind = "raw", !.raw = raw]
               ELSE formatTimestamp(seconds)

\* app.ts:499-504
normalizeUrlForMatch(url) == [url EXCEPT !.t = NoT, !.frag = FALSE]

\* app.ts:514-520; NotUrl stands for null
normalizePossibleUrl(value) ==
    LET parsed == parseUrlOrNull(value)
    IN IF ~parsed.isUrl THEN NotUrl ELSE normalizeUrlForMatch(parsed)

(***************************************************************************)
(* The Media API payload (APIs.md) as JSON.parse gives it, and the library *)
(* the page builds from it.  A collection lists its entries in the order   *)
(* Object.entries enumerates them.                                         *)
(***************************************************************************)
Str(text) == [isString |-> TRUE, text |-> text]
NotStr == [isString |-> FALSE, text |-> EmptyText]
UrlStr(url) == [isString |-> TRUE, url |-> url]
NotUrlStr == [isString |-> FALSE, url |-> NotUrl]

Entry(name, url, youtubeId) ==
    [isRecord |-> TRUE, name |-> name, url |-> url, youtube_id |-> youtubeId]
NotAnEntry == [isRecord |-> FALSE, name |-> NotStr, url |-> NotUrlStr, youtube_id |-> NotStr]

Collection(entries) == [isRecord |-> TRUE, entries |-> entries]
NotACollection == [isRecord |-> FALSE, entries |-> <<>>]

Payload(videos, images) == [isRecord |-> TRUE, videos |-> videos, images |-> images]
NotAPayload == [isRecord |-> FALSE, videos |-> NotACollection, images |-> NotACollection]

\* String.prototype.trim on a string that holds a URL, or whitespace only
TrimUrlText(u) == [u EXCEPT !.pad = FALSE]

NoItem == [name |-> EmptyText, url |-> NotUrl, hasYoutubeId |-> FALSE,
           youtube_id |-> EmptyText]

normalizeVideoEntry_NoTrim(entry) ==
    LET name == IF entry.name.isString THEN entry.name.text ELSE EmptyText
        url == IF entry.url.isString THEN entry.url.url ELSE BlankInput
        youtubeId == IF entry.youtube_id.isString THEN entry.youtube_id.text
                     ELSE EmptyText
    IN IF ~entry.isRecord \/ name = EmptyText \/ url.blank
       THEN [kept |-> FALSE, item |-> NoItem]
       ELSE [kept |-> TRUE,
             item |-> [name |-> name, url |-> url,
                       hasYoutubeId |-> youtubeId # EmptyText,
                       youtube_id |-> youtubeId]]

\* app.ts:329-342, one entry of videos: the normalised item with kept = TRUE,
\* or kept = FALSE when the entry is skipped
normalizeVideoEntry(entry) ==
    LET name == IF entry.name.isString THEN Trim(entry.name.text) ELSE EmptyText
        url == IF entry.url.isString THEN TrimUrlText(entry.url.url) ELSE BlankInput
        youtubeId == IF entry.youtube_id.isString THEN Trim(entry.youtube_id.text)
                     ELSE EmptyText
    IN IF ~entry.isRecord \/ name = EmptyText \/ url.blank
       THEN [kept |-> FALSE, item |-> NoItem]
       ELSE [kept |-> TRUE,
             item |-> [name |-> name, url |-> url,
                       hasYoutubeId |-> youtubeId # EmptyText,
                       youtube_id |-> youtubeId]]

\* app.ts:356-361, one entry of images
normalizeImageEntry(entry) ==
    LET name == IF entry.name.isString THEN Trim(entry.name.text) ELSE EmptyText
        url == IF entry.url.isString THEN TrimUrlText(entry.url.url) ELSE BlankInput
    IN IF ~entry.isRecord \/ name = EmptyText \/ url.blank
       THEN [kept |-> FALSE, item |-> NoItem]
       ELSE [kept |-> TRUE, item |-> [NoItem EXCEPT !.name = name, !.url = url]]

RECURSIVE NormalizeEntries(_, _)
NormalizeEntries(entries, video) ==
    IF entries = <<>> THEN <<>>
    ELSE LET first == Head(entries)
             n == IF video THEN normalizeVideoEntry(first.entry)
                  ELSE normalizeImageEntry(first.entry)
             rest == NormalizeEntries(Tail(entries), video)
         IN IF n.kept THEN <<[id |-> first.id, item |-> n.item]>> \o rest ELSE rest

\* app.ts:320-345
normalizeVideos(value) ==
    IF ~value.isRecord THEN <<>> ELSE NormalizeEntries(value.entries, TRUE)

\* app.ts:347-364
normalizeImages(value) ==
    IF ~value.isRecord THEN <<>> ELSE NormalizeEntries(value.entries, FALSE)

EmptyLibrary == [videos |-> <<>>, images |-> <<>>]

\* app.ts:366-374; parsed = FALSE stands for null
parseMediaLibrary(payload) ==
    IF ~payload.isRecord THEN [parsed |-> FALSE, library |-> EmptyLibrary]
    ELSE [parsed |-> TRUE,
          library |-> [videos |-> normalizeVideos(payload.videos),
                       images |-> normalizeImages(payload.images)]]

\* a UTF-16 high surrogate that no low surrogate follows, as JSON.parse gives
\* it for the escape \ud800
LoneSurrogate == "U+D800"

IsWellFormed(text) == \A i \in 1..Len(text) : text[i] # LoneSurrogate

\* app.ts:611: encodeURIComponent throws URIError on a lone surrogate
encodeURIComponentThrows(text) == ~IsWellFormed(text)

(***************************************************************************)
(* The texts, URLs and payloads the model draws from.                      *)
(***************************************************************************)
IdA == <<"d", "Q", "w", "4", "w", "9">>
IdB == <<"a", "_", "-", "1", "2", "3", "Z">>
IdShort == <<"a", "b", "c">>
IdSurrogate == <<"a", "b", "c", "d", "e", "f", LoneSurrogate>>
IdBadChar == <<"a", "b", "c", "!", "e", "f", "g">>
KeyMcc == <<"m", "c", "c", "1", "1">>
KeyRef == <<"r", "e", "f", "1">>
RawUrlId == <<"r", "a", "w", "-", "u", "r", "l">>
NameDream == <<"D", "r", "e", "a", "m">>
NameOther == <<"O", "t", "h", "e", "r">>
NameFrame == <<"F", "r", "a", "m", "e">>
DirectVideoName == <<"D", "i", "r", "e", "c", "t", " ", "V", "i", "d", "e", "o", " ", "U", "R", "L">>

FileUrl(name) == Url("example.com", <<<<"v", "i", "d", "e", "o", "s">>, name>>, EmptyText, NoT, FALSE)
WatchUrl(id, t) == Url("www.youtube.com", <<<<"w", "a", "t", "c", "h">>>>, id, t, FALSE)
ShortUrl(id, t) == Url("youtu.be", <<id>>, EmptyText, t, FALSE)

Timestamps ==
    {NoT, DigitsT(0), DigitsT(90), DigitsT(3725),
     HmsT(FALSE, 0, TRUE, 1, TRUE, 30), HmsT(TRUE, 1, FALSE, 0, FALSE, 0),
     HmsT(FALSE, 0, FALSE, 0, TRUE, 0), OtherT}

SearchInputs ==
    {BlankInput, NotUrl}
    \cup {WatchUrl(id, t) : id \in {IdA, IdB}, t \in Timestamps}
    \cup {ShortUrl(id, NoT) : id \in {IdA, IdB, IdShort, IdBadChar}}
    \cup {[WatchUrl(<<" ">> \o IdA \o <<" ">>, DigitsT(90)) EXCEPT !.pad = TRUE],
          Url("www.youtube.com", <<<<"s", "h", "o", "r", "t", "s">>, IdA>>, EmptyText, NoT, TRUE),
          Url("www.youtube.com", <<<<"p", "l", "a", "y", "l", "i", "s", "t">>>>, EmptyText, NoT, FALSE),
          Url("notyoutube.com", <<<<"w", "a", "t", "c", "h">>>>, IdA, NoT, FALSE),
          FileUrl(KeyMcc), [FileUrl(KeyRef) EXCEPT !.frag = TRUE],
          FileUrl(NameOther)}

\* the example of APIs.md:13-29
DocPayload ==
    Payload(Collection(<<[id |-> KeyMcc,
                          entry |-> Entry(Str(NameDream), UrlStr(FileUrl(KeyMcc)), Str(IdA))]>>),
            Collection(<<[id |-> KeyRef,
                          entry |-> Entry(Str(NameFrame), UrlStr(FileUrl(KeyRef)), NotStr)]>>))

\* a video whose key is the YouTube id of another video of the library
KeyIsOtherIdPayload ==
    Payload(Collection(<<[id |-> IdA,
                          entry |-> Entry(Str(NameOther), UrlStr(FileUrl(NameOther)), Str(IdB))],
                         [id |-> KeyMcc,
                          entry |-> Entry(Str(NameDream), UrlStr(FileUrl(KeyMcc)), Str(IdA))]>>),
            NotACollection)

\* a video keyed by its YouTube id, without youtube_id; an image and a video
\* that share a URL
KeyOnlyPayload ==
    Payload(Collection(<<[id |-> IdB,
                          entry |-> Entry(Str(NameOther), UrlStr(FileUrl(KeyRef)), NotStr)]>>),
            Collection(<<[id |-> KeyRef,
                          entry |-> Entry(Str(NameFrame), UrlStr(FileUrl(KeyRef)), NotStr)]>>))

\* entries the schema does not allow: no name, a blank url, padded texts, an
\* entry that is not an object, a blank youtube_id
MessyPayload ==
    Payload(Collection(<<[id |-> KeyMcc,
                          entry |-> Entry(Str(<<" ">> \o NameDream \o <<" ">>),
                                          UrlStr([FileUrl(KeyMcc) EXCEPT !.pad = TRUE]),
                                          Str(<<" ">> \o IdA))],
                         [id |-> KeyRef, entry |-> Entry(NotStr, UrlStr(FileUrl(KeyRef)), Str(IdB))],
                         [id |-> IdB, entry |-> Entry(Str(NameOther), UrlStr(BlankInput), Str(IdB))],
                         [id |-> NameOther, entry |-> NotAnEntry],
                         [id |-> IdA,
                          entry |-> Entry(Str(NameOther), UrlStr(NotUrl), Str(<<" ", " ">>))]>>),
            Collection(<<[id |-> KeyRef, entry |-> Entry(Str(<<" ">>), UrlStr(FileUrl(KeyRef)), NotStr)],
                         [id |-> KeyMcc, entry |-> Entry(Str(NameFrame), NotUrlStr, NotStr)]>>))

\* a youtube_id that is a string but not well-formed UTF-16
SurrogatePayload ==
    Payload(Collection(<<[id |-> KeyMcc,
                          entry |-> Entry(Str(NameDream), UrlStr(FileUrl(KeyMcc)),
                                          Str(IdSurrogate))]>>),
            NotACollection)

\* an answer without videos
ImagesOnlyPayload ==
    Payload(NotACollection,
            Collection(<<[id |-> KeyRef,
                          entry |-> Entry(Str(NameFrame), UrlStr(FileUrl(KeyRef)), NotStr)]>>))

Payloads ==
    {DocPayload, KeyIsOtherIdPayload, KeyOnlyPayload, MessyPayload, SurrogatePayload,
     ImagesOnlyPayload, Payload(NotACollection, NotACollection), NotAPayload}

(***************************************************************************)
(* The state of the selector and its handlers.                             *)
(***************************************************************************)
NO_YOUTUBE_VIDEO_ERROR ==
    "video is not provided by the Media API, please download the video yourself and upload it."

NoSelection == [set |-> FALSE, tab |-> "videos", id |-> EmptyText, item |-> NoItem,
                timestampLabel |-> NoLabel]

Selected(tab, id, item, label) ==
    [set |-> TRUE, tab |-> tab, id |-> id, item |-> item, timestampLabel |-> label]

\* app.ts:457
MatchesYoutubeId(e, youtubeId) ==
    e.id = youtubeId \/ (e.item.hasYoutubeId /\ e.item.youtube_id = youtubeId)

RECURSIVE FirstVideoByYoutubeId(_, _)
\* app.ts:456-460: the loop over the entries, in their order
FirstVideoByYoutubeId(entries, youtubeId) ==
    IF entries = <<>> THEN <<>>
    ELSE IF MatchesYoutubeId(Head(entries), youtubeId) THEN <<Head(entries)>>
    ELSE FirstVideoByYoutubeId(Tail(entries), youtubeId)

\* app.ts:455-462; <<>> stands for null
findVideoByYoutubeId(library, youtubeId) ==
    FirstVideoByYoutubeId(library.videos, youtubeId)

\* app.ts:472-473
MatchesNormalizedUrl(e, normalizedUrl) ==
    LET itemUrl == normalizePossibleUrl(e.item.url)
    IN itemUrl.isUrl /\ itemUrl = normalizedUrl

RECURSIVE FirstMediaByUrl(_, _)
\* app.ts:471-476: the loop over the entries of one collection
FirstMediaByUrl(entries, normalizedUrl) ==
    IF entries = <<>> THEN <<>>
    ELSE IF MatchesNormalizedUrl(Head(entries), normalizedUrl) THEN <<Head(entries)>>
    ELSE FirstMediaByUrl(Tail(entries), normalizedUrl)

\* app.ts:464-482; <<>> stands for null
findMediaByNormalizedUrl(library, activeTab, normalizedUrl) ==
    LET first == IF activeTab = "videos" THEN "videos" ELSE "images"
        second == IF activeTab = "videos" THEN "images" ELSE "videos"
        inFirst == FirstMediaByUrl(library[first], normalizedUrl)
        inSecond == FirstMediaByUrl(library[second], normalizedUrl)
    IN IF inFirst # <<>> THEN <<[tab |-> first, e |-> inFirst[1]]>>
       ELSE IF inSecond # <<>> THEN <<[tab |-> second, e |-> inSecond[1]]>>
       ELSE <<>>

handleSearchEnter_GuessRawUrl(rawInput, library, tab, selection, error) ==
    LET unchanged == [tab |-> tab, selection |-> selection, error |-> error]
        url == parseUrlOrNull(rawInput)
    IN IF rawInput.blank THEN unchanged
       ELSE IF ~url.isUrl THEN unchanged
       ELSE IF isYoutubeUrl(url)
       THEN LET youtubeId == extractYoutubeId(url)
                foundVideo == findVideoByYoutubeId(library, youtubeId)
            IN IF youtubeId = EmptyText \/ foundVideo = <<>>
               THEN [tab |-> "videos",
                     selection |-> Selected("videos", RawUrlId,
                                            [NoItem EXCEPT !.name = DirectVideoName,
                                                           !.url = url],
                                            NoLabel),
                     error |-> NO_YOUTUBE_VIDEO_ERROR]
               ELSE [tab |-> "videos",
                     selection |-> Selected("videos", foundVideo[1].id, foundVideo[1].item,
                                            extractYoutubeTimestampLabel(url)),
                     error |-> ""]
       ELSE LET matchedMedia == findMediaByNormalizedUrl(library, tab,
                                                         normalizeUrlForMatch(url))
            IN IF matchedMedia # <<>>
               THEN [tab |-> matchedMedia[1].tab,
                     selection |-> Selected(matchedMedia[1].tab, matchedMedia[1].e.id,
                                            matchedMedia[1].e.item, NoLabel),
                     error |-> ""]
               ELSE [tab |-> "videos",
                     selection |-> Selected("videos", RawUrlId,
                                            [NoItem EXCEPT !.name = DirectVideoName,
                                                           !.url = url],
                                            NoLabel),
                     error |-> ""]


\* app.ts:707-764: what handleSearchEnter leaves in activeMediaTab,
\* selectedMedia and the media error, given what they hold
handleSearchEnter(rawInput, library, tab, selection, error) ==
    LET unchanged == [tab |-> tab, selection |-> selection, error |-> error]
        url == parseUrlOrNull(rawInput)
    IN IF rawInput.blank THEN unchanged
       ELSE IF ~url.isUrl THEN unchanged
       ELSE IF isYoutubeUrl(url)
       THEN LET youtubeId == extractYoutubeId(url)
                foundVideo == findVideoByYoutubeId(library, youtubeId)
            IN IF youtubeId = EmptyText \/ foundVideo = <<>>
               THEN [unchanged EXCEPT !.error = NO_YOUTUBE_VIDEO_ERROR]
               ELSE [tab |-> "videos",
                     selection |-> Selected("videos", foundVideo[1].id, foundVideo[1].item,
                                            extractYoutubeTimestampLabel(url)),
                     error |-> ""]
       ELSE LET matchedMedia == findMediaByNormalizedUrl(library, tab,
                                                         normalizeUrlForMatch(url))
            IN IF matchedMedia # <<>>
               THEN [tab |-> matchedMedia[1].tab,
                     selection |-> Selected(matchedMedia[1].tab, matchedMedia[1].e.id,
                                            matchedMedia[1].e.item, NoLabel),
                     error |-> ""]
               ELSE [tab |-> "videos",
                     selection |-> Selected("videos", RawUrlId,
                                            [NoItem EXCEPT !.name = DirectVideoName,
                                                           !.url = url],
                                            NoLabel),
                     error |-> ""]


(***************************************************************************)
(* The build (build/build.js, build/pipeline).  A command-line argument,   *)
(* and any string main derives from the arguments, is a record: dashes     *)
(* tells whether it starts with "--", name is what follows the dashes up   *)
(* to a "=", hasEq whether there is a "=", value what follows the "=" (or  *)
(* the whole text of an argument without dashes).  isNull marks null.      *)
(***************************************************************************)
Plain(text) == [isNull |-> FALSE, dashes |-> FALSE, name |-> "", hasEq |-> FALSE,
                value |-> text]

Flag(name) == [isNull |-> FALSE, dashes |-> TRUE, name |-> name, hasEq |-> FALSE,
               value |-> ""]

KeyEquals(name, value) == [isNull |-> FALSE, dashes |-> TRUE, name |-> name,
                           hasEq |-> TRUE, value |-> value]

Null == [isNull |-> TRUE, dashes |-> FALSE, name |-> "", hasEq |-> FALSE, value |-> ""]

\* the truth value JavaScript gives a string or null
Truthy(s) == ~s.isNull /\ (s.dashes \/ s.value # "")

\* s === text, for a text that does not start with dashes
IsText(s, text) == ~s.isNull /\ ~s.dashes /\ s.value = text

\* build.js:9, argv.find: the index of the first argument --key=..., or 0
FindDirect(argv, key) ==
    LET hits == {i \in 1..Len(argv) : argv[i].dashes /\ argv[i].hasEq /\ argv[i].name = key}
    IN IF hits = {} THEN 0 ELSE CHOOSE i \in hits : \A j \in hits : i <= j

\* build.js:13, argv.indexOf: the index of the first argument --key, or 0
IndexOfFlag(argv, key) ==
    LET hits == {i \in 1..Len(argv) : argv[i].dashes /\ ~argv[i].hasEq /\ argv[i].name = key}
    IN IF hits = {} THEN 0 ELSE CHOOSE i \in hits : \A j \in hits : i <= j

parseOption_FlagFirst(argv, key) ==
    LET direct == FindDirect(argv, key)
        idx == IndexOfFlag(argv, key)
    IN IF idx > 0 /\ idx + 1 <= Len(argv) THEN argv[idx + 1]
       ELSE IF direct > 0 THEN Plain(argv[direct].value)
       ELSE Null

\* build.js:6-18
parseOption(argv, key) ==
    LET direct == FindDirect(argv, key)
        idx == IndexOfFlag(argv, key)
    IN IF direct > 0 THEN Plain(argv[direct].value)
       ELSE IF idx > 0 /\ idx + 1 <= Len(argv) THEN argv[idx + 1]
       ELSE Null

RECURSIVE PositionalsFrom(_, _, _)
\* build.js:22-32, the loop from index i on
PositionalsFrom(argv, knownValueOptions, i) ==
    IF i > Len(argv) THEN <<>>
    ELSE IF argv[i].dashes
    THEN IF ~argv[i].hasEq /\ argv[i].name \in knownValueOptions
         THEN PositionalsFrom(argv, knownValueOptions, i + 2)
         ELSE PositionalsFrom(argv, knownValueOptions, i + 1)
    ELSE <<argv[i]>> \o PositionalsFrom(argv, knownValueOptions, i + 1)

\* build.js:20-34
parsePositionals(argv, knownValueOptions) == PositionalsFrom(argv, knownValueOptions, 1)

\* build.js:48
knownValueOptions == {"target", "dest", "config"}

destinationDir_AnyTarget(argv, target) ==
    LET positionals == parsePositionals(argv, knownValueOptions)
        dest == parseOption(argv, "dest")
    IN IF Truthy(dest) THEN dest
       ELSE IF positionals # <<>> THEN positionals[1] ELSE Null

\* build.js:50
destinationDir(argv, target) ==
    LET positionals == parsePositionals(argv, knownValueOptions)
        dest == parseOption(argv, "dest")
    IN IF Truthy(dest) THEN dest
       ELSE IF IsText(target, "web")
       THEN IF positionals # <<>> THEN positionals[1] ELSE Null
       ELSE Null

\* the arguments the model draws the command line from
ArgTokens ==
    {KeyEquals("target", "python"), KeyEquals("target", "web"), KeyEquals("target", ""),
     Flag("target"), Plain("python"), Plain("web"), Plain("folder"),
     KeyEquals("dest", "out"), KeyEquals("dest", ""), Flag("dest")}

RECURSIVE SeqsUpTo(_, _)
\* the sequences over S of length at most n
SeqsUpTo(S, n) ==
    IF n = 0 THEN {<<>>}
    ELSE LET shorter == SeqsUpTo(S, n - 1)
         IN shorter \cup {Append(q, x) : q \in {r \in shorter : Len(r) = n - 1}, x \in S}

CommandLines == SeqsUpTo(ArgTokens, MaxArgs)

(***************************************************************************)
(* Texts of the build are sequences of characters; a longer piece that     *)
(* holds no quote, backslash or line break stands as one element.          *)
(***************************************************************************)
Text(piece) == <<piece>>

RECURSIVE JsonEscape(_)
\* the characters JSON.stringify writes between the quotes
JsonEscape(text) ==
    IF text = <<>> THEN <<>>
    ELSE LET c == Head(text)
             out == CASE c = "\"" -> <<"\\", "\"">>
                      [] c = "\\" -> <<"\\", "\\">>
                      [] c = "\n" -> <<"\\", "n">>
                      [] OTHER -> <<c>>
         IN out \o JsonEscape(Tail(text))

JsonStringify_Raw(text) == <<"\"">> \o text \o <<"\"">>

\* common.js:98-99, JSON.stringify of a string
JsonStringify(text) == <<"\"">> \o JsonEscape(text) \o <<"\"">>

RECURSIVE PyUnescape(_)
\* what Python reads between the quotes of a string literal
PyUnescape(chars) ==
    IF chars = <<>> THEN <<>>
    ELSE IF Head(chars) = "\\" /\ Len(chars) >= 2
    THEN LET c == chars[2]
             out == CASE c = "n" -> <<"\n">>
                      [] c = "\"" -> <<"\"">>
                      [] c = "\\" -> <<"\\">>
                      [] OTHER -> <<"\\", c>>
         IN out \o PyUnescape(Tail(Tail(chars)))
    ELSE <<Head(chars)>> \o PyUnescape(Tail(chars))

RECURSIVE ClosingQuote(_, _)
\* the index of the quote that ends the literal whose characters start at i
ClosingQuote(literal, i) ==
    IF i > Len(literal) THEN 0
    ELSE IF literal[i] = "\\" THEN ClosingQuote(literal, i + 2)
    ELSE IF literal[i] = "\"" THEN i
    ELSE ClosingQuote(literal, i + 1)

\* common.js:139, HTML_PAGE = "...": the value Python gives the literal, up
\* to the quote that closes it
PythonStringValue(literal) ==
    LET close == ClosingQuote(literal, 2)
    IN IF close = 0 THEN <<>> ELSE PyUnescape(SubSeq(literal, 2, close - 1))

RECURSIVE ReplaceFirst(_, _, _)
\* String.prototype.replace with a string pattern: the first occurrence
ReplaceFirst(text, token, replacement) ==
    IF text = <<>> THEN <<>>
    ELSE IF Head(text) = token THEN replacement \o Tail(text)
    ELSE <<Head(text)>> \o ReplaceFirst(Tail(text), token, replacement)

RECURSIVE ReplaceAll(_, _, _)
\* String.prototype.replace with a global pattern
ReplaceAll(text, token, replacement) ==
    IF text = <<>> THEN <<>>
    ELSE IF Head(text) = token THEN replacement \o ReplaceAll(Tail(text), token, replacement)
    ELSE <<Head(text)>> \o ReplaceAll(Tail(text), token, replacement)

OpencvDefault == Text("/opencv.js")

NoOptions == [backendMode |-> "", opencvUrl |-> NotStr, mediaApiUrl |-> NotStr,
              dataApiUrl |-> NotStr, videoApiUrl |-> NotStr]

Defines_FromVideoApiUrl(options) ==
    [backendMode |-> IF options.backendMode = "web" THEN "web" ELSE "python",
     opencvUrl |-> IF options.opencvUrl.isString /\ Trim(options.opencvUrl.text) # EmptyText
                   THEN options.opencvUrl.text ELSE OpencvDefault,
     mediaApiUrl |-> IF options.videoApiUrl.isString THEN options.videoApiUrl.text
                     ELSE EmptyText,
     dataApiUrl |-> IF options.dataApiUrl.isString THEN options.dataApiUrl.text
                    ELSE EmptyText]

\* common.js:15-28: the values buildCommonArtifacts compiles into the bundle
Defines(options) ==
    [backendMode |-> IF options.backendMode = "web" THEN "web" ELSE "python",
     opencvUrl |-> IF options.opencvUrl.isString /\ Trim(options.opencvUrl.text) # EmptyText
                   THEN options.opencvUrl.text ELSE OpencvDefault,
     mediaApiUrl |-> IF options.mediaApiUrl.isString THEN options.mediaApiUrl.text
                     ELSE EmptyText,
     dataApiUrl |-> IF options.dataApiUrl.isString THEN options.dataApiUrl.text
                    ELSE EmptyText]

\* common.js:37-56: the bundle esbuild makes of app.ts under the defines
AppBundle(defines) ==
    Text("__MCV_BACKEND__=") \o JsonStringify(Text(defines.backendMode))
    \o Text(";__MCV_OPENCV_URL__=") \o JsonStringify(defines.opencvUrl)
    \o Text(";__MCV_MEDIA_API_URL__=") \o JsonStringify(defines.mediaApiUrl)
    \o Text(";__MCV_DATA_API_URL__=") \o JsonStringify(defines.dataApiUrl)
    \o Text(";app")

\* common.js:59-74
bodyStyleBlock(backendMode) ==
    IF backendMode = "web"
    THEN <<"background: transparent;", "\n", "padding: 24px;">>
    ELSE <<"background: radial-gradient;", "\n", "padding: 24px;">>

\* common.js:76-79
backendScripts(backendMode, opencvUrl) ==
    IF backendMode = "web"
    THEN Text("<script src=") \o <<"\"">> \o ReplaceAll(opencvUrl, "\"", Text("&quot;"))
         \o <<"\"">> \o Text("></script>")
    ELSE <<>>

\* common.js:75
safeInlineBundle(appBundle) == ReplaceAll(appBundle, "</script", <<"<", "\\", "/script">>)

\* common.js:80-83
InlineHtml(template, defines, appBundle) ==
    ReplaceFirst(
        ReplaceFirst(
            ReplaceFirst(template, "__MCV_BODY_STYLE__", bodyStyleBlock(defines.backendMode)),
            "__BACKEND_SCRIPTS__", backendScripts(defines.backendMode, defines.opencvUrl)),
        "__APP_JS__", safeInlineBundle(appBundle))

\* app.ts:250-252
isMediaApiAvailable(mediaApiUrl) == Trim(mediaApiUrl) # EmptyText

\* common.js:97-100, 139: the two literals of the standalone script;
\* JSON.stringify(undefined) is written as the word undefined
renderPythonStandaloneScript(inlineHtml, requirementsText) ==
    [HTML_PAGE |-> JsonStringify(inlineHtml),
     REQUIREMENTS_TEXT |-> IF requirementsText.isString
                           THEN JsonStringify(requirementsText.text)
                           ELSE Text("undefined")]

\* pythonTarget.js:17-20 and :50-52: the options buildPythonTarget gives
\* buildCommonArtifacts, in each of the two revisions of the file
PythonOptions(revision) ==
    IF revision = "with_requirements"
    THEN [NoOptions EXCEPT !.backendMode = "python", !.videoApiUrl = Str(Text("/mcv/videos"))]
    ELSE [NoOptions EXCEPT !.backendMode = "python"]

Revisions == {"with_requirements", "without_requirements"}

\* dist paths (common.js:34-35, pythonTarget.js:23)
AppBundlePath == "dist/common/app.bundle.js"
InlineHtmlPath == "dist/common/index.inline.html"
StandaloneScriptPath == "dist/python/mcv_standalone.py"

\* build/config.json as JSON.parse gives it (README: Build config)
NoSection == [present |-> FALSE, isNull |-> FALSE, website_url |-> NotStr,
              video_api_url |-> NotStr]

Section(websiteUrl, videoApiUrl) ==
    [present |-> TRUE, isNull |-> FALSE, website_url |-> websiteUrl,
     video_api_url |-> videoApiUrl]

NullSection == [NoSection EXCEPT !.present = TRUE, !.isNull = TRUE]

ConfigFile(state, common, web) == [state |-> state, common |-> common, web |-> web]

WebsiteUrl == <<"https:", "/", "/", "dartjs.com">>
VideoApiPath == <<"/", "mcv", "/", "videos">>

ConfigFiles ==
    {ConfigFile("absent", NoSection, NoSection),
     ConfigFile("invalid", NoSection, NoSection),
     ConfigFile("parsed", NoSection, NoSection),
     ConfigFile("parsed", Section(Str(WebsiteUrl), Str(VideoApiPath)), Section(NotStr, NotStr)),
     ConfigFile("parsed", Section(Str(WebsiteUrl), NotStr), NullSection)}

\* build.js:53, 57-61: typeof null is "object", so a null section stays null
RootConfigSection(section) == IF section.present THEN section ELSE NoSection

Templates ==
    {<<"<html>", "__MCV_BODY_STYLE__", "__BACKEND_SCRIPTS__", "<script>", "__APP_JS__",
       "</script", ">">>,
     <<"\"", "\\", "n", "\n", "__APP_JS__", "__APP_JS__">>,
     <<"plain">>}

RequirementsTexts == {<<"flask", "\n", "opencv-python">>}

(***************************************************************************)
(* One run of node build/build.js.                                         *)
(***************************************************************************)
NotStarted ==
    [pc |-> "off", target |-> Null, destinationDir |-> Null, configState |-> "unread",
     rootConfig |-> [common |-> NoSection, web |-> NoSection],
     invoked |-> "none", webDestination |-> Null,
     defines |-> Defines(NoOptions), appBundle |-> <<>>, inlineHtml |-> <<>>,
     requirementsText |-> NotStr, exitCode |-> -1]

BuildInit ==
    /\ buildIn \in [argv : CommandLines, revision : Revisions]
    /\ buildRun = [NotStarted EXCEPT !.pc = "start"]
    /\ disk = <<>>
    /\ console = <<>>

\* no build runs
BuildQuiet ==
    /\ buildIn = [argv |-> <<>>, revision |-> "with_requirements"]
    /\ buildRun = NotStarted
    /\ disk = <<>>
    /\ console = <<>>

\* build.js:116-120: main rejected
Failed(b) == [b EXCEPT !.pc = "exit", !.exitCode = 1]

\* a file written in full, or what a write that failed may leave of it
Written(path, text) == [path |-> path, text |-> text, complete |-> TRUE]
Truncated(path) == [path |-> path, text |-> <<>>, complete |-> FALSE]

(***************************************************************************)
(* Call slots.                                                             *)
(***************************************************************************)
IdleCall ==
    [pc |-> "idle", via |-> "callMcvApi", op |-> "cv.opencvTest",
     settled |-> "pending", resp |-> NoResponse, http |-> NoHttp,
     envAtStart |-> "missing", disturbed |-> FALSE, fault |-> FALSE,
     image |-> "none", cvBuild |-> "none"]

\* the promise callMcvApi returned settles with the outcome of its body
Settle(call, outcome) ==
    [call EXCEPT !.pc = "done",
                 !.settled = IF outcome.threw THEN "rejected" ELSE "resolved",
                 !.resp = outcome.value]

\* app.ts:565-626: renderMediaList builds the YouTube link of every listed
\* video that has a youtube_id
renderMediaListThrows(tab, library, listed) ==
    /\ tab = "videos"
    /\ listed
    /\ \E i \in 1..Len(library.videos) :
          /\ library.videos[i].item.hasYoutubeId
          /\ encodeURIComponentThrows(library.videos[i].item.youtube_id)

\* app.ts:675-697: the list is rendered when nothing is selected and the
\* library is loaded; the other branches set a text
renderMediaBoxThrows(selection, loadState, tab, library, listed) ==
    /\ ~selection.set
    /\ loadState = "loaded"
    /\ renderMediaListThrows(tab, library, listed)

UiInit ==
    /\ pagePc = "start"
    /\ mediaApiAvailable \in BOOLEAN
    /\ activeMediaTab = "videos"
    /\ mediaLoadState = "loading"
    /\ mediaSearchQuery = BlankInput
    /\ selectedMedia = NoSelection
    /\ mediaLibrary = EmptyLibrary
    /\ mediaError = ""
    /\ loadPc = "none"
    /\ loadBody = NotAPayload
    /\ loadFault = "none"
    /\ lastEvent = "none"

\* the selector before the page has run bootstrap
UiQuiet ==
    /\ pagePc = "start"
    /\ mediaApiAvailable = FALSE
    /\ activeMediaTab = "videos"
    /\ mediaLoadState = "loading"
    /\ mediaSearchQuery = BlankInput
    /\ selectedMedia = NoSelection
    /\ mediaLibrary = EmptyLibrary
    /\ mediaError = ""
    /\ loadPc = "none"
    /\ loadBody = NotAPayload
    /\ loadFault = "none"
    /\ lastEvent = "none"

ActiveCallers == IF args = EmptyArgs THEN Callers ELSE {1}

ApiInit ==
    /\ backend \in {"web", "python"}
    /\ cvEnv \in {"missing", "broken", "good"}
    /\ cvPromise = NullPromise
    /\ args \in ArgsSet
    /\ calls = [c \in Callers |-> IdleCall]
    /\ dispatched = {}
    /\ scriptElements \in PageScripts(backend)

\* app.ts:171-184 in the web bundle, up to the first await
WebCall(c, op) ==
    /\ backend = "web"
    /\ calls[c].pc = "idle"
    /\ LET call == [IdleCall EXCEPT !.op = op]
       IN IF ~WebSupports(op)
          THEN /\ calls' = [calls EXCEPT ![c] = Settle(call, Returned(WebUnknownOp(op)))]
               /\ UNCHANGED <<cvPromise, dispatched, scriptElements>>
          ELSE /\ cvPromise' = getWebMcvRuntime(cvPromise, cvEnv)
               /\ scriptElements' = IF StartsLoad(cvPromise, cvEnv)
                                     THEN loadScriptOnce(scriptElements)
                                     ELSE scriptElements
               /\ calls' = [calls EXCEPT ![c] = [call EXCEPT !.pc = "awaitRuntime",
                                                              !.envAtStart = cvEnv]]
               /\ dispatched' = dispatched \cup {op}
    /\ UNCHANGED <<backend, cvEnv, args>>
    /\ UNCHANGED <<uiVars, buildVars>>

\* app.ts:150-166: the runtime promise settles
RuntimeSettle ==
    /\ cvPromise.st \in {"loading", "pending"}
    /\ cvPromise' = SettleRuntimePromise(cvPromise, cvEnv)
    /\ UNCHANGED <<backend, cvEnv, args, calls, dispatched, scriptElements>>
    /\ UNCHANGED <<uiVars, buildVars>>

\* app.ts:184-213: the call resumes once the runtime promise has settled
WebResume(c) ==
    /\ calls[c].pc = "awaitRuntime"
    /\ cvPromise.st \in {"resolved", "rejected"}
    /\ calls' = [calls EXCEPT ![c] = Settle(calls[c], WebCatch(WebTryBody(cvPromise)))]
    /\ UNCHANGED <<backend, cvEnv, cvPromise, args, dispatched, scriptElements>>
    /\ UNCHANGED <<uiVars, buildVars>>

\* app.ts:216-221 in the python bundle: the request is sent
PyCall(c, op) ==
    /\ backend = "python"
    /\ calls[c].pc = "idle"
    /\ calls' = [calls EXCEPT ![c] = [IdleCall EXCEPT !.op = op, !.pc = "awaitFetch"]]
    /\ UNCHANGED <<backend, cvEnv, cvPromise, args, dispatched, scriptElements>>
    /\ UNCHANGED <<uiVars, buildVars>>

\* app.ts:217-231: fetch settles.  The network may fail (fetch rejects), the
\* server's handler may raise, or something between the two may answer 200
\* with a body that is not JSON.
PyFetchSettle(c, net) ==
    /\ calls[c].pc = "awaitFetch"
    /\ LET call == [calls[c] EXCEPT !.fault = (net # "delivered")]
           r == CASE net = "delivered" -> api_mcv(call.op, FALSE)
                  [] net = "handler_raises" -> api_mcv(call.op, TRUE)
                  [] OTHER -> OtherBody(200)
       IN /\ calls' = [calls EXCEPT ![c] =
                 IF net = "network_fail" THEN Settle(call, PyCatch(Thrown))
                 ELSE IF ~ResponseOk(r) THEN Settle(call, Returned(PyHttpError(r)))
                 ELSE [call EXCEPT !.pc = "awaitBody", !.http = r]]
          /\ dispatched' = IF net \in {"delivered", "handler_raises"} /\ ServerSupports(call.op)
                           THEN dispatched \cup {call.op}
                           ELSE dispatched
    /\ UNCHANGED <<backend, cvEnv, cvPromise, args, scriptElements>>
    /\ UNCHANGED <<uiVars, buildVars>>

\* app.ts:233-243: the body has been read
PyBodySettle(c) ==
    /\ calls[c].pc = "awaitBody"
    /\ calls' = [calls EXCEPT ![c] = Settle(calls[c], PyCatch(PyReadBody(calls[c].http)))]
    /\ UNCHANGED <<backend, cvEnv, cvPromise, args, dispatched, scriptElements>>
    /\ UNCHANGED <<uiVars, buildVars>>

\* another HTTP client posts {op, args} to /api/mcv of the server the python
\* target runs and reads the answer as it is (common.js:229-249)
HttpPostMcv(c, op, raises) ==
    /\ backend = "python"
    /\ calls[c].pc = "idle"
    /\ calls' = [calls EXCEPT ![c] =
                    [IdleCall EXCEPT !.via = "/api/mcv", !.op = op, !.pc = "done",
                                     !.settled = "resolved", !.fault = raises,
                                     !.http = api_mcv(op, raises)]]
    /\ dispatched' = IF ServerSupports(op) THEN dispatched \cup {op} ELSE dispatched
    /\ UNCHANGED <<backend, cvEnv, cvPromise, args, scriptElements>>
    /\ UNCHANGED <<uiVars, buildVars>>

\* an HTTP client posts to /api/mcv/pipeline (common.js:252-287)
HttpPostPipeline(c, image, build) ==
    /\ backend = "python"
    /\ calls[c].pc = "idle"
    /\ calls' = [calls EXCEPT ![c] =
                    [IdleCall EXCEPT !.via = "/api/mcv/pipeline", !.pc = "done",
                                     !.settled = "resolved",
                                     !.image = image, !.cvBuild = build,
                                     !.http = api_mcv_pipeline(image, build)]]
    /\ UNCHANGED <<backend, cvEnv, cvPromise, args, dispatched, scriptElements>>
    /\ UNCHANGED <<uiVars, buildVars>>

\* the caller has consumed the result; the slot is free for the next call
Return(c) ==
    /\ calls[c].pc = "done"
    /\ calls' = [calls EXCEPT ![c] = IdleCall]
    /\ UNCHANGED <<backend, cvEnv, cvPromise, args, dispatched, scriptElements>>
    /\ UNCHANGED <<uiVars, buildVars>>

\* the environment of the web page changes: the script becomes reachable or
\* not, globalThis.cv is set by another script
EnvChange(e) ==
    /\ backend = "web"
    /\ e # cvEnv
    /\ cvEnv' = e
    /\ calls' = [c \in Callers |->
                    IF calls[c].pc \in {"idle", "done"} THEN calls[c]
                    ELSE [calls[c] EXCEPT !.disturbed = TRUE]]
    /\ UNCHANGED <<backend, cvPromise, args, dispatched, scriptElements>>
    /\ UNCHANGED <<uiVars, buildVars>>

Next ==
    \/ \E c \in ActiveCallers, op \in RequestedOps : WebCall(c, op)
    \/ RuntimeSettle
    \/ \E c \in ActiveCallers : WebResume(c)
    \/ \E c \in ActiveCallers, op \in RequestedOps : PyCall(c, op)
    \/ \E c \in ActiveCallers,
          net \in {"delivered", "handler_raises", "network_fail", "bad_body"} :
              PyFetchSettle(c, net)
    \/ \E c \in ActiveCallers : PyBodySettle(c)
    \/ \E c \in ActiveCallers, op \in RequestedOps, raises \in BOOLEAN :
          HttpPostMcv(c, op, raises)
    \/ \E c \in ActiveCallers, image \in ImageInputs, build \in CvBuilds :
          HttpPostPipeline(c, image, build)
    \/ \E c \in ActiveCallers : Return(c)
    \/ \E e \in {"missing", "broken", "good"} : EnvChange(e)

Init == ApiInit /\ UiQuiet /\ BuildQuiet

Spec == Init /\ [][Next]_vars

\* no backend call is made
ApiQuiet ==
    /\ backend \in {"web", "python"}
    /\ cvEnv = "good"
    /\ cvPromise = NullPromise
    /\ args = EmptyArgs
    /\ calls = [c \in Callers |-> IdleCall]
    /\ dispatched = {}
    /\ scriptElements = <<>>

\* app.ts:825-831 with the part of loadMediaLibrary before its first await
\* (app.ts:796-808)
Bootstrap ==
    /\ pagePc = "start"
    /\ pagePc' = "booted"
    /\ IF ~mediaApiAvailable
       THEN /\ mediaLoadState' = "no_api"
            /\ UNCHANGED <<mediaError, loadPc>>
       ELSE /\ mediaError' = ""
            /\ mediaLoadState' = "fetching"
            /\ loadPc' = "fetch"
    /\ lastEvent' = "bootstrap"
    /\ UNCHANGED <<mediaApiAvailable, activeMediaTab, mediaSearchQuery, selectedMedia,
                   mediaLibrary, loadBody, loadFault>>
    /\ UNCHANGED <<apiVars, buildVars>>

LoadFetchSettle_NoCatch(outcome, payload) ==
    /\ loadPc = "fetch"
    /\ IF outcome = "ok"
       THEN /\ loadPc' = "body"
            /\ loadBody' = payload
            /\ UNCHANGED <<mediaLoadState, loadFault>>
       ELSE /\ loadPc' = "end"
            /\ loadFault' = outcome
            /\ UNCHANGED <<mediaLoadState, loadBody>>
    /\ lastEvent' = "load"
    /\ UNCHANGED <<pagePc, mediaApiAvailable, activeMediaTab, mediaSearchQuery,
                   selectedMedia, mediaLibrary, mediaError>>
    /\ UNCHANGED <<apiVars, buildVars>>

\* app.ts:808-811, 819-822: the fetch of the Media API settles
LoadFetchSettle(outcome, payload) ==
    /\ loadPc = "fetch"
    /\ IF outcome = "ok"
       THEN /\ loadPc' = "body"
            /\ loadBody' = payload
            /\ UNCHANGED <<mediaLoadState, loadFault>>
       ELSE /\ loadPc' = "end"
            /\ mediaLoadState' = "failed"
            /\ loadFault' = outcome
            /\ UNCHANGED loadBody
    /\ lastEvent' = "load"
    /\ UNCHANGED <<pagePc, mediaApiAvailable, activeMediaTab, mediaSearchQuery,
                   selectedMedia, mediaLibrary, mediaError>>
    /\ UNCHANGED <<apiVars, buildVars>>

\* app.ts:812-822: the body has been read; decoded = FALSE when
\* response.json() rejects.  renderMediaBox (app.ts:817) runs inside the try,
\* after both assignments: an exception of it ends in the catch as well.
\* listed tells whether the search filter leaves the videos in the list; a
\* blank query leaves them all (app.ts:523-526).
LoadBodySettle(decoded, listed) ==
    /\ loadPc = "body"
    /\ loadPc' = "end"
    /\ mediaSearchQuery.blank => listed
    /\ LET parsed == parseMediaLibrary(loadBody)
       IN IF ~decoded
          THEN /\ mediaLoadState' = "failed"
               /\ loadFault' = "json_throws"
               /\ UNCHANGED mediaLibrary
          ELSE IF ~parsed.parsed
          THEN /\ mediaLoadState' = "failed"
               /\ loadFault' = "invalid_schema"
               /\ UNCHANGED mediaLibrary
          ELSE /\ mediaLibrary' = parsed.library
               /\ IF renderMediaBoxThrows(selectedMedia, "loaded", activeMediaTab,
                                          parsed.library, listed)
                  THEN /\ mediaLoadState' = "failed"
                       /\ loadFault' = "render_throws"
                  ELSE /\ mediaLoadState' = "loaded"
                       /\ UNCHANGED loadFault
    /\ lastEvent' = "load"
    /\ UNCHANGED <<pagePc, mediaApiAvailable, activeMediaTab, mediaSearchQuery,
                   selectedMedia, mediaError, loadBody>>
    /\ UNCHANGED <<apiVars, buildVars>>

setActiveMediaTab_KeepSelection(nextTab) ==
    /\ pagePc = "booted"
    /\ activeMediaTab' = nextTab
    /\ mediaError' = ""
    /\ lastEvent' = "tab"
    /\ UNCHANGED <<pagePc, mediaApiAvailable, mediaLoadState, mediaSearchQuery,
                   selectedMedia, mediaLibrary, loadPc, loadFault, loadBody>>
    /\ UNCHANGED <<apiVars, buildVars>>

\* app.ts:699-705, 771-777
setActiveMediaTab(nextTab) ==
    /\ pagePc = "booted"
    /\ activeMediaTab' = nextTab
    /\ selectedMedia' = NoSelection
    /\ mediaError' = ""
    /\ lastEvent' = "tab"
    /\ UNCHANGED <<pagePc, mediaApiAvailable, mediaLoadState, mediaSearchQuery,
                   mediaLibrary, loadPc, loadFault, loadBody>>
    /\ UNCHANGED <<apiVars, buildVars>>

\* app.ts:781-785
SearchInput(value) ==
    /\ pagePc = "booted"
    /\ mediaSearchQuery' = value
    /\ mediaError' = ""
    /\ lastEvent' = "input"
    /\ UNCHANGED <<pagePc, mediaApiAvailable, activeMediaTab, mediaLoadState,
                   selectedMedia, mediaLibrary, loadPc, loadFault, loadBody>>
    /\ UNCHANGED <<apiVars, buildVars>>

\* app.ts:786-792: Enter in the search box, whose value the input handler
\* has stored in mediaSearchQuery
SearchEnter ==
    /\ pagePc = "booted"
    /\ LET after == handleSearchEnter(mediaSearchQuery, mediaLibrary, activeMediaTab,
                                      selectedMedia, mediaError)
       IN /\ activeMediaTab' = after.tab
          /\ selectedMedia' = after.selection
          /\ mediaError' = after.error
    /\ lastEvent' = "enter"
    /\ UNCHANGED <<pagePc, mediaApiAvailable, mediaLoadState, mediaSearchQuery,
                   mediaLibrary, loadPc, loadFault, loadBody>>
    /\ UNCHANGED <<apiVars, buildVars>>

\* app.ts:600-604: a title of the rendered list is clicked.  The list is
\* rendered when the library is loaded and nothing is selected (app.ts:675-
\* 697); which entries the search filter leaves in it is not modelled: any
\* entry of the active tab may be clicked.
ItemClick(i) ==
    /\ pagePc = "booted"
    /\ mediaLoadState = "loaded"
    /\ ~selectedMedia.set
    /\ i \in 1..Len(mediaLibrary[activeMediaTab])
    /\ mediaError' = ""
    /\ selectedMedia' = Selected(activeMediaTab, mediaLibrary[activeMediaTab][i].id,
                                 mediaLibrary[activeMediaTab][i].item, NoLabel)
    /\ lastEvent' = "item"
    /\ UNCHANGED <<pagePc, mediaApiAvailable, activeMediaTab, mediaLoadState,
                   mediaSearchQuery, mediaLibrary, loadPc, loadFault, loadBody>>
    /\ UNCHANGED <<apiVars, buildVars>>

\* app.ts:660-663
Back ==
    /\ pagePc = "booted"
    /\ selectedMedia.set
    /\ selectedMedia' = NoSelection
    /\ lastEvent' = "back"
    /\ UNCHANGED <<pagePc, mediaApiAvailable, activeMediaTab, mediaLoadState,
                   mediaSearchQuery, mediaLibrary, mediaError, loadPc, loadFault, loadBody>>
    /\ UNCHANGED <<apiVars, buildVars>>

NextUi ==
    \/ Bootstrap
    \/ \E outcome \in {"ok", "http_error", "fetch_throws"}, payload \in Payloads :
          LoadFetchSettle(outcome, payload)
    \/ \E decoded \in BOOLEAN, listed \in BOOLEAN : LoadBodySettle(decoded, listed)
    \/ \E tab \in {"videos", "images"} : setActiveMediaTab(tab)
    \/ \E value \in SearchInputs : SearchInput(value)
    \/ SearchEnter
    \/ \E i \in 1..MaxEntries : ItemClick(i)
    \/ Back

InitUi == UiInit /\ ApiQuiet /\ BuildQuiet

SpecUi == InitUi /\ [][NextUi]_vars

\* app.ts:808-812: the two awaits of loadMediaLibrary.  The browser settles
\* the promise of fetch and the promise of response.json(), and the
\* continuation of loadMediaLibrary then runs as a microtask: once enabled,
\* these steps are taken.
LoadSteps ==
    \/ \E outcome \in {"ok", "http_error", "fetch_throws"}, payload \in Payloads :
          LoadFetchSettle(outcome, payload)
    \/ \E decoded \in BOOLEAN, listed \in BOOLEAN : LoadBodySettle(decoded, listed)

SpecUiFair == InitUi /\ [][NextUi]_vars /\ WF_vars(Bootstrap) /\ WF_vars(LoadSteps)

\* build.js:46-51: main up to the read of the configuration
Main ==
    /\ buildRun.pc = "start"
    /\ LET target == parseOption(buildIn.argv, "target")
       IN buildRun' = [buildRun EXCEPT !.pc = "config",
                                 !.target = target,
                                 !.destinationDir = destinationDir(buildIn.argv, target)]
    /\ UNCHANGED <<buildIn, disk, console>>
    /\ UNCHANGED <<apiVars, uiVars>>

ConfigSettle_WebByDefault(file) ==
    /\ buildRun.pc = "config"
    /\ buildRun' = [buildRun EXCEPT !.pc = "web_build", !.invoked = "web",
                              !.webDestination = buildRun.destinationDir]
    /\ UNCHANGED <<buildIn, disk, console>>
    /\ UNCHANGED <<apiVars, uiVars>>

\* build.js:53-114: the configuration has been read as file, or reading it
\* failed; main goes on to the build of the target, up to that build's first
\* await
ConfigSettle(file) ==
    /\ buildRun.pc = "config"
    /\ LET rootConfig == IF file.state = "parsed"
                         THEN [common |-> RootConfigSection(file.common),
                               web |-> RootConfigSection(file.web)]
                         ELSE [common |-> NoSection, web |-> NoSection]
           b == [buildRun EXCEPT !.rootConfig = rootConfig, !.configState = file.state]
       IN IF file.state = "invalid"
          THEN /\ buildRun' = Failed(b)
               /\ console' = Append(console, "build/build.js failed")
          ELSE IF IsText(buildRun.target, "python")
          THEN /\ buildRun' = IF buildIn.revision = "with_requirements"
                           THEN [b EXCEPT !.pc = "requirements", !.invoked = "python"]
                           ELSE [b EXCEPT !.pc = "common_mkdir", !.invoked = "python",
                                          !.defines = Defines(PythonOptions(buildIn.revision))]
               /\ UNCHANGED console
          ELSE IF IsText(buildRun.target, "web")
          THEN IF rootConfig.web.isNull
               THEN /\ buildRun' = Failed(b)
                    /\ console' = Append(console, "build/build.js failed")
               ELSE /\ buildRun' = [b EXCEPT !.pc = "web_build", !.invoked = "web",
                                          !.webDestination = buildRun.destinationDir]
                    /\ UNCHANGED console
          ELSE /\ buildRun' = Failed(b)
               /\ console' = console \o <<"Invalid or missing target.", "Usage">>
    /\ UNCHANGED <<buildIn, disk>>
    /\ UNCHANGED <<apiVars, uiVars>>

\* common.js:14-95: an await of buildCommonArtifacts settles; ok = FALSE
\* when it rejects, partial when a rejected write leaves a truncated file,
\* template is the text of template.html when it is read
CommonArtifactsStep(ok, partial, template) ==
    /\ buildRun.pc \in {"common_mkdir", "esbuild", "write_bundle", "read_template",
                     "write_inline"}
    /\ partial => ~ok /\ buildRun.pc \in {"write_bundle", "write_inline"}
    /\ IF ~ok
       THEN /\ buildRun' = Failed(buildRun)
            /\ console' = Append(console, "build/build.js failed")
            /\ disk' = IF partial
                       THEN Append(disk, Truncated(IF buildRun.pc = "write_bundle"
                                                   THEN AppBundlePath ELSE InlineHtmlPath))
                       ELSE disk
       ELSE /\ UNCHANGED console
            /\ CASE buildRun.pc = "common_mkdir" ->
                      /\ buildRun' = [buildRun EXCEPT !.pc = "esbuild"]
                      /\ UNCHANGED disk
                 [] buildRun.pc = "esbuild" ->
                      /\ buildRun' = [buildRun EXCEPT !.pc = "write_bundle",
                                                !.appBundle = AppBundle(buildRun.defines)]
                      /\ UNCHANGED disk
                 [] buildRun.pc = "write_bundle" ->
                      /\ buildRun' = [buildRun EXCEPT !.pc = "read_template"]
                      /\ disk' = Append(disk, Written(AppBundlePath, buildRun.appBundle))
                 [] buildRun.pc = "read_template" ->
                      /\ buildRun' = [buildRun EXCEPT
                                     !.pc = "write_inline",
                                     !.inlineHtml = InlineHtml(template, buildRun.defines,
                                                               buildRun.appBundle)]
                      /\ UNCHANGED disk
                 [] buildRun.pc = "write_inline" ->
                      /\ buildRun' = [buildRun EXCEPT !.pc = "python_mkdir"]
                      /\ disk' = Append(disk, Written(InlineHtmlPath, buildRun.inlineHtml))
    /\ UNCHANGED buildIn
    /\ UNCHANGED <<apiVars, uiVars>>

\* pythonTarget.js:13-32: an await of buildPythonTarget itself settles: the
\* read of mcv-requirements.txt, ensureDir, the write of the script; after
\* the last, main prints the result (build.js:73-74)
PythonTargetStep(ok, partial, requirements) ==
    /\ buildRun.pc \in {"requirements", "python_mkdir", "write_standalone"}
    /\ partial => ~ok /\ buildRun.pc = "write_standalone"
    /\ IF ~ok
       THEN /\ buildRun' = Failed(buildRun)
            /\ console' = Append(console, "build/build.js failed")
            /\ disk' = IF partial THEN Append(disk, Truncated(StandaloneScriptPath))
                       ELSE disk
       ELSE CASE buildRun.pc = "requirements" ->
                    /\ buildRun' = [buildRun EXCEPT
                                   !.pc = "common_mkdir",
                                   !.requirementsText = Str(requirements),
                                   !.defines = Defines(PythonOptions(buildIn.revision))]
                    /\ UNCHANGED <<disk, console>>
              [] buildRun.pc = "python_mkdir" ->
                    /\ buildRun' = [buildRun EXCEPT !.pc = "write_standalone"]
                    /\ UNCHANGED <<disk, console>>
              [] buildRun.pc = "write_standalone" ->
                    /\ buildRun' = [buildRun EXCEPT !.pc = "done", !.exitCode = 0]
                    /\ disk' = Append(disk,
                                      Written(StandaloneScriptPath,
                                              renderPythonStandaloneScript(
                                                  buildRun.inlineHtml, buildRun.requirementsText)))
                    /\ console' = Append(console, "Python build complete.")
    /\ UNCHANGED buildIn
    /\ UNCHANGED <<apiVars, uiVars>>

\* build.js:87-105: buildWebTarget (build/pipeline/webTarget.js) settles
WebTargetSettle(ok) ==
    /\ buildRun.pc = "web_build"
    /\ IF ok
       THEN /\ buildRun' = [buildRun EXCEPT !.pc = "done", !.exitCode = 0]
            /\ console' = Append(console, "Web build complete.")
       ELSE /\ buildRun' = Failed(buildRun)
            /\ console' = Append(console, "build/build.js failed")
    /\ UNCHANGED <<buildIn, disk>>
    /\ UNCHANGED <<apiVars, uiVars>>

NextBuild ==
    \/ Main
    \/ \E file \in ConfigFiles : ConfigSettle(file)
    \/ \E ok \in BOOLEAN, partial \in BOOLEAN, template \in Templates :
          CommonArtifactsStep(ok, partial, template)
    \/ \E ok \in BOOLEAN, partial \in BOOLEAN, requirements \in RequirementsTexts :
          PythonTargetStep(ok, partial, requirements)
    \/ \E ok \in BOOLEAN : WebTargetSettle(ok)

InitBuild == BuildInit /\ ApiQuiet /\ UiQuiet

SpecBuild == InitBuild /\ [][NextBuild]_vars

(***************************************************************************)
(* What a page with no earlier call answers, per backend.                  *)
(***************************************************************************)
\* app.ts:172-214 on a page whose first call this is, with the runtime
\* environment env throughout the call
FreshWebResponse(op, env) ==
    IF ~WebSupports(op) THEN WebUnknownOp(op)
    ELSE WebCatch(WebTryBody(SettleRuntimePromise(StartRuntimePromise(env), env))).value

\* app.ts:216-243 against common.js:229-249 with nothing failing in between
NominalPythonResponse(op) ==
    LET r == api_mcv(op, FALSE)
    IN IF ~ResponseOk(r) THEN PyHttpError(r) ELSE PyCatch(PyReadBody(r)).value

ApiCalls == {c \in Callers : calls[c].via = "callMcvApi"}
DoneApiCalls == {c \in ApiCalls : calls[c].pc = "done"}
HttpCalls == {c \in Callers : calls[c].via # "callMcvApi" /\ calls[c].pc = "done"}

RuntimeGood == cvPromise.st = "resolved" /\ cvPromise.cv = "good"

\* the call met one of the failures callMcvApi reports
FailureOutcome(c) ==
    \/ calls[c].op \notin McvOperation
    \/ backend = "web" /\ ~RuntimeGood
    \/ backend = "python" /\ calls[c].fault

\* nothing around the call failed: the runtime loaded, or was not needed, on
\* the web page; the request and its answer travelled on the python page
NothingFailedAround(c) ==
    IF backend = "web" THEN ~WebSupports(calls[c].op) \/ RuntimeGood
    ELSE ~calls[c].fault

SuccessShape(r) == r.ok /\ r.fields = {"ok", "data"} /\ r.data # ""
FailureShape(r) == ~r.ok /\ r.fields = {"ok", "error"} /\ r.data = ""

(***************************************************************************)
(* C1: callMcvApi never throws or rejects.  The promise of every call      *)
(* settles by resolving, to an envelope; a call that met an unsupported    *)
(* operation, a runtime that did not load or whose call threw, a status    *)
(* outside 2xx, a network failure or a body that is not JSON resolves to   *)
(* ok = false with an error whose code and message are not empty.          *)
(***************************************************************************)
C1_NeverRejects ==
    \A c \in ApiCalls :
        /\ calls[c].settled # "rejected"
        /\ calls[c].pc = "done" =>
              /\ calls[c].settled = "resolved"
              /\ "ok" \in calls[c].resp.fields
              /\ calls[c].resp.ok => "data" \in calls[c].resp.fields
              /\ FailureOutcome(c) =>
                    /\ ~calls[c].resp.ok
                    /\ "error" \in calls[c].resp.fields
                    /\ calls[c].resp.error.code # ""
                    /\ calls[c].resp.error.message[1] # ""

\* a 200 answer whose body is not JSON came back as a NETWORK_ERROR envelope
C1_Witness ==
    \E c \in DoneApiCalls :
        /\ backend = "python"
        /\ calls[c].http.status = 200 /\ ~calls[c].http.json
        /\ calls[c].settled = "resolved"
        /\ calls[c].resp.error.code = "NETWORK_ERROR"

(***************************************************************************)
(* C2: the envelope is uniform across the two backends.  Whenever a call   *)
(* completes with nothing failing around it (the runtime loaded on the web *)
(* page, the request and the answer travelled on the python page), the     *)
(* other backend answers the same request with the same ok flag and, on    *)
(* failure, the same error code.                                           *)
(***************************************************************************)
C2_UniformEnvelope ==
    \A c \in DoneApiCalls :
        NothingFailedAround(c) =>
            LET mine == calls[c].resp
                other == IF backend = "web" THEN NominalPythonResponse(calls[c].op)
                         ELSE FreshWebResponse(calls[c].op, "good")
            IN /\ mine.ok = other.ok
               /\ ~mine.ok => mine.error.code = other.error.code

EnterOnKnownYoutubeLink ==
    /\ lastEvent = "enter"
    /\ mediaLoadState = "loaded"
    /\ mediaSearchQuery.isUrl
    /\ isYoutubeUrl(mediaSearchQuery)
    /\ extractYoutubeId(mediaSearchQuery) # EmptyText
    /\ \E i \in 1..Len(mediaLibrary.videos) :
          /\ mediaLibrary.videos[i].item.hasYoutubeId
          /\ mediaLibrary.videos[i].item.youtube_id = extractYoutubeId(mediaSearchQuery)

\* the seconds a label h:mm:ss or m:ss stands for
LabelSeconds(label) == label.hrs * 3600 + label.mins * 60 + label.secs

\* C10: after Enter on a YouTube link whose id is the youtube_id of a video
\* of the loaded library, the selection is a video whose youtube_id is that
\* id, the active tab is videos, and the selection carries the link's t: a
\* label when t is given, of as many seconds as t when t is a number.
C10_Original ==
    EnterOnKnownYoutubeLink =>
        /\ selectedMedia.set
        /\ selectedMedia.tab = "videos"
        /\ activeMediaTab = "videos"
        /\ selectedMedia.item.hasYoutubeId
        /\ selectedMedia.item.youtube_id = extractYoutubeId(mediaSearchQuery)
        /\ (mediaSearchQuery.t.kind = "none") = (selectedMedia.timestampLabel = NoLabel)
        /\ mediaSearchQuery.t.kind = "digits" =>
              LabelSeconds(selectedMedia.timestampLabel) = mediaSearchQuery.t.n


\* a text that is not empty and has no whitespace at either end
CleanText(text) == Len(text) > 0 /\ text[1] # " " /\ text[Len(text)] # " "

\* a string holding a URL or other text, not blank and without whitespace
\* at either end
CleanUrlText(u) == ~u.blank /\ ~u.pad

\* the payload gives the entry id of videos a youtube_id that is a string
\* and not blank
PayloadGivesYoutubeId(payload, id) ==
    /\ payload.isRecord
    /\ payload.videos.isRecord
    /\ \E i \in 1..Len(payload.videos.entries) :
          LET given == payload.videos.entries[i]
          IN /\ given.id = id
             /\ given.entry.isRecord
             /\ given.entry.youtube_id.isString
             /\ \E k \in 1..Len(given.entry.youtube_id.text) :
                   given.entry.youtube_id.text[k] # " "

\* C11: in every reachable state every entry of mediaLibrary.videos and of
\* mediaLibrary.images has a name and a url that are not empty and have no
\* whitespace around them, and a video has a youtube_id only when the
\* payload the library was read from gave that entry a non-blank string.
C11_RequiredFields ==
    /\ \A i \in 1..Len(mediaLibrary.videos) :
          LET e == mediaLibrary.videos[i]
          IN /\ CleanText(e.item.name)
             /\ CleanUrlText(e.item.url)
             /\ e.item.hasYoutubeId => PayloadGivesYoutubeId(loadBody, e.id)
    /\ \A i \in 1..Len(mediaLibrary.images) :
          LET e == mediaLibrary.images[i]
          IN CleanText(e.item.name) /\ CleanUrlText(e.item.url)

\* C11 witness: a payload with padded texts, entries without name or url
\* and a blank youtube_id has been loaded, and entries of it were dropped
C11_Witness ==
    /\ mediaLoadState = "loaded"
    /\ loadBody = MessyPayload
    /\ Len(mediaLibrary.videos) = 2
    /\ Len(mediaLibrary.videos) < Len(loadBody.videos.entries)
    /\ Len(mediaLibrary.images) = 0
    /\ mediaLibrary.videos[1].item.hasYoutubeId
    /\ ~mediaLibrary.videos[2].item.hasYoutubeId


\* loadMediaLibrary has ended after a fetch that gave a 2xx status and a body
\* that decoded to a plain object
LoadEndedOnObject ==
    /\ loadPc = "end"
    /\ loadFault \notin {"http_error", "fetch_throws", "json_throws"}
    /\ loadBody.isRecord

\* the part of the library is empty when the payload's part is not an object
MissingPartsEmpty ==
    /\ ~loadBody.videos.isRecord => mediaLibrary.videos = <<>>
    /\ ~loadBody.images.isRecord => mediaLibrary.images = <<>>

\* C12: when the fetch gives a 2xx status and the payload is an object,
\* loadMediaLibrary ends in 'loaded', videos and images being optional (a
\* part that is missing or not an object becomes an empty collection); it
\* ends in 'failed' only when the status is not 2xx, the fetch or the JSON
\* decoding throws, or the payload is not a plain object.
C12_Original ==
    /\ LoadEndedOnObject => mediaLoadState = "loaded" /\ MissingPartsEmpty
    /\ mediaLoadState = "failed" =>
          loadFault \in {"http_error", "fetch_throws", "json_throws", "invalid_schema"}


(***************************************************************************)
(* The build.                                                              *)
(***************************************************************************)
\* a python build has completed
PythonBuildDone == buildRun.pc = "done" /\ buildRun.invoked = "python"

\* the configuration sets both common.website_url and common.video_api_url
ConfigSetsBothUrls ==
    /\ buildRun.configState = "parsed"
    /\ ~buildRun.rootConfig.common.isNull
    /\ buildRun.rootConfig.common.website_url.isString
    /\ buildRun.rootConfig.common.video_api_url.isString

\* the absolute URL of a path on a site
CombineUrl(websiteUrl, path) == websiteUrl \o path

\* C13: a python build whose configuration sets common.website_url and
\* common.video_api_url compiles into the app, as the media API URL, the
\* absolute URL that combines the two, so that the app's Media API is
\* available (and fetched at start-up) instead of 'No Media API'.
C13_Original ==
    PythonBuildDone /\ ConfigSetsBothUrls =>
        /\ buildRun.defines.mediaApiUrl =
              CombineUrl(buildRun.rootConfig.common.website_url.text,
                         buildRun.rootConfig.common.video_api_url.text)
        /\ isMediaApiAvailable(buildRun.defines.mediaApiUrl)


\* the paths of the files written in full, in the order of the writes
WrittenPaths == [i \in 1..Len(disk) |-> IF disk[i].complete THEN disk[i].path ELSE "truncated"]

\* the text of the last full write to path, or <<>>
FileText(path) ==
    LET hits == {i \in 1..Len(disk) : disk[i].path = path /\ disk[i].complete}
    IN IF hits = {} THEN <<>>
       ELSE disk[CHOOSE i \in hits : \A j \in hits : j <= i].text

\* building the common artifacts has failed: main has ended in its catch
\* without the inline HTML written
CommonArtifactsFailed ==
    /\ buildRun.pc = "exit"
    /\ buildRun.invoked = "python"
    /\ \A i \in 1..Len(disk) : ~(disk[i].path = InlineHtmlPath /\ disk[i].complete)

\* C14: a python build that completes has written app.bundle.js, then
\* index.inline.html, then mcv_standalone.py; the HTML_PAGE literal of the
\* script holds exactly the text written to index.inline.html; and when the
\* build of the common artifacts fails nothing is written to
\* mcv_standalone.py.
C14_OutputsInOrder ==
    /\ PythonBuildDone =>
          /\ WrittenPaths = <<AppBundlePath, InlineHtmlPath, StandaloneScriptPath>>
          /\ PythonStringValue(FileText(StandaloneScriptPath).HTML_PAGE)
                = FileText(InlineHtmlPath)
    /\ CommonArtifactsFailed =>
          \A i \in 1..Len(disk) : disk[i].path # StandaloneScriptPath

\* C14 witness: a python build has completed on a template whose text holds
\* a quote, a backslash and a line break
C14_Witness ==
    /\ PythonBuildDone
    /\ Len(disk) = 3
    /\ \E i \in 1..Len(FileText(InlineHtmlPath)) : FileText(InlineHtmlPath)[i] = "\\"
    /\ \E i \in 1..Len(FileText(InlineHtmlPath)) : FileText(InlineHtmlPath)[i] = "\n"

\* C14 witness of the failure: the common artifacts failed after the bundle
\* was written
C14_FailureWitness ==
    /\ CommonArtifactsFailed
    /\ Len(disk) = 1
    /\ disk[1].path = AppBundlePath


\* main is past its dispatch on the target
Dispatched == buildRun.pc \notin {"off", "start", "config"}

\* the target the command line gives, the form --target=value first
TargetGiven == parseOption(buildIn.argv, "target")

\* some argument is --dest or --dest=...
DestGiven == \E i \in 1..Len(buildIn.argv) :
                buildIn.argv[i].dashes /\ buildIn.argv[i].name = "dest"

\* the first positional argument, or null
FirstPositional ==
    LET positionals == parsePositionals(buildIn.argv, knownValueOptions)
    IN IF positionals = <<>> THEN Null ELSE positionals[1]

\* no build was run, the usage was printed and the exit status is 1
UsageExit ==
    /\ buildRun.invoked = "none"
    /\ console = <<"Invalid or missing target.", "Usage">>
    /\ buildRun.exitCode = 1

\* no build was run, main ended in its catch with exit status 1
FailedExit ==
    /\ buildRun.invoked = "none"
    /\ console = <<"build/build.js failed">>
    /\ buildRun.exitCode = 1

\* C15 as stated: main dispatches on --target only: the python build runs
\* exactly when the target is python, the web build exactly when it is web,
\* and for any other or a missing target no build runs, the usage is printed
\* and the exit status is 1; the web build gets the value of --dest when
\* --dest is given and the positional folder only when it is not.
C15_Original ==
    Dispatched =>
        /\ (buildRun.invoked = "python") = IsText(TargetGiven, "python")
        /\ (buildRun.invoked = "web") = IsText(TargetGiven, "web")
        /\ ~IsText(TargetGiven, "python") /\ ~IsText(TargetGiven, "web") => UsageExit
        /\ buildRun.invoked = "web" =>
              buildRun.webDestination =
                  IF DestGiven THEN parseOption(buildIn.argv, "dest") ELSE FirstPositional

\* C15 amended: when the configuration file exists but cannot be read or
\* parsed, or the target is web and the web section of the configuration is
\* null, main fails whatever the target: no build, "build/build.js failed",
\* exit status 1.  Otherwise main dispatches on --target only, as stated.
\* The web build gets the value of --dest when that value is not empty, and
\* otherwise the positional folder, if any.
C15_DispatchAfterConfig ==
    Dispatched =>
        LET configFails == \/ buildRun.configState = "invalid"
                           \/ IsText(TargetGiven, "web") /\ buildRun.rootConfig.web.isNull
        IN /\ configFails => FailedExit
           /\ ~configFails =>
                 /\ (buildRun.invoked = "python") = IsText(TargetGiven, "python")
                 /\ (buildRun.invoked = "web") = IsText(TargetGiven, "web")
                 /\ ~IsText(TargetGiven, "python") /\ ~IsText(TargetGiven, "web") => UsageExit
           /\ buildRun.invoked = "web" =>
                 buildRun.webDestination =
                     IF Truthy(parseOption(buildIn.argv, "dest"))
                     THEN parseOption(buildIn.argv, "dest")
                     ELSE FirstPositional

\* C15 witness: the web build runs on the positional folder although --dest=
\* is given, the target being given in both forms
C15_Witness ==
    /\ buildRun.invoked = "web"
    /\ DestGiven
    /\ buildRun.webDestination = Plain("folder")
    /\ FindDirect(buildIn.argv, "target") > 0


\* the search box holds a YouTube link from which no video id can be
\* extracted, or whose id is neither the key nor the youtube_id of a video
\* of the library
YoutubeLinkNotProvided ==
    /\ ~mediaSearchQuery.blank
    /\ mediaSearchQuery.isUrl
    /\ isYoutubeUrl(mediaSearchQuery)
    /\ \/ extractYoutubeId(mediaSearchQuery) = EmptyText
       \/ \A i \in 1..Len(mediaLibrary.videos) :
             /\ mediaLibrary.videos[i].id # extractYoutubeId(mediaSearchQuery)
             /\ ~(/\ mediaLibrary.videos[i].item.hasYoutubeId
                  /\ mediaLibrary.videos[i].item.youtube_id
                        = extractYoutubeId(mediaSearchQuery))

\* C16: Enter on a YouTube link that the library does not provide sets the
\* media error to the 'video is not provided by the Media API' message and
\* leaves activeMediaTab and selectedMedia as they were.
C16_ReportedNotGuessed ==
    [][(lastEvent' = "enter" /\ YoutubeLinkNotProvided) =>
          /\ mediaError' = NO_YOUTUBE_VIDEO_ERROR
          /\ activeMediaTab' = activeMediaTab
          /\ selectedMedia' = selectedMedia]_vars

\* C16 witness: with an image selected in a loaded library, Enter on a
\* YouTube link the library does not provide has set the error and kept the
\* selection and the tab
C16_Witness ==
    /\ lastEvent = "enter"
    /\ YoutubeLinkNotProvided
    /\ mediaLoadState = "loaded"
    /\ mediaError = NO_YOUTUBE_VIDEO_ERROR
    /\ selectedMedia.set
    /\ selectedMedia.tab = "images"
    /\ activeMediaTab = "images"


(***************************************************************************)
(* The line-detection endpoint.                                            *)
(***************************************************************************)
\* the requests to /api/mcv/pipeline that have been answered
PipelineCalls == {c \in Callers : calls[c].pc = "done" /\ calls[c].via = "/api/mcv/pipeline"}

\* the request gives no image_data_url that is a non-blank string
NoImageGiven(image) == image \in {"args_not_object", "missing", "not_string", "blank"}

\* an answer that is the failure envelope with this code, sent with 400
FailureAnswer(r, code) ==
    /\ r.json
    /\ r.status = 400
    /\ r.value.ok = FALSE
    /\ r.value.fields = {"ok", "error"}
    /\ r.value.error.code = code

\* C17: /api/mcv/pipeline reports every failure through the envelope: a
\* request without a non-blank string image_data_url is answered INVALID_ARGS
\* with status 400; an exception while decoding the image or detecting lines
\* is answered PIPELINE_ERROR with status 400; only a run without exception
\* is answered ok = true with data.
C17_Original ==
    \A c \in PipelineCalls :
        LET r == calls[c].http
            image == calls[c].image
        IN /\ r.json
           /\ NoImageGiven(image) => FailureAnswer(r, "INVALID_ARGS")
           /\ ~NoImageGiven(image) /\ run_pipeline(image, calls[c].cvBuild).raised =>
                 FailureAnswer(r, "PIPELINE_ERROR")
           /\ r.value.ok =>
                 /\ ~NoImageGiven(image)
                 /\ ~run_pipeline(image, calls[c].cvBuild).raised
                 /\ r.status = 200
                 /\ r.value.fields = {"ok", "data"}


(***************************************************************************)
(* The selector's state across events.                                     *)
(***************************************************************************)
\* C18: whenever something is selected, the tab of the selection is the
\* active tab.
C18_SelectionOnActiveTab ==
    selectedMedia.set => selectedMedia.tab = activeMediaTab

\* C18 witness: after Enter on the URL of an image while the videos tab was
\* active, the image is selected and the images tab is active
C18_Witness ==
    /\ lastEvent = "enter"
    /\ selectedMedia.set
    /\ selectedMedia.tab = "images"
    /\ activeMediaTab = "images"
    /\ selectedMedia.id = KeyRef
    /\ mediaSearchQuery.frag


\* the values of mediaLoadState in which the load is over (app.ts:798, 817, 820)
SettledLoadStates == {"no_api", "loaded", "failed"}

UiEventStep == lastEvent' \in {"tab", "input", "enter", "item", "back"}

RuntimeStarted == cvPromise.st # "null"

\* app.ts:150-166: the promise held by cvPromise settles; it is not replaced
SamePromise ==
    \/ cvPromise' = cvPromise
    \/ /\ cvPromise.st \in {"loading", "pending"}
       /\ cvPromise' = SettleRuntimePromise(cvPromise, cvEnv)

\* C21: the OpenCV.js runtime is loaded and initialised at most once per page.
\* Once cvPromise holds a promise no step assigns another one; every web call
\* that waits for the runtime waits for the promise in cvPromise, and every
\* finished one was answered from how that promise settled; and at most one
\* script element of the page requests the OpenCV script, the script tag of
\* the web build included.
C21_Original ==
    /\ [][RuntimeStarted => SamePromise]_vars
    /\ [](\A c \in Callers : calls[c].pc = "awaitRuntime" => RuntimeStarted)
    /\ [](\A c \in DoneApiCalls :
            (backend = "web" /\ WebSupports(calls[c].op)) =>
                (cvPromise.st \in {"resolved", "rejected"} /\ calls[c].resp.ok = RuntimeGood))
    /\ [](Len(scriptElements) <= 1)

====
